---- MODULE Spec2Model ----
(***************************************************************************)
(* ArticleRender: ArticleValidator + HtmlRenderer + render_article()       *)
(* (src/renderer.py), modelled as a state machine.                         *)
(*                                                                         *)
(* Data representation.                                                    *)
(*   A JSON/Python value is a tagged record:                               *)
(*     [k |-> "null"]                 None                                 *)
(*     [k |-> "str",  s |-> chars]    a string, a sequence of characters   *)
(*     [k |-> "int",  n |-> n]        an integer                           *)
(*     [k |-> "list", l |-> elems]    a list                               *)
(*     [k |-> "dict", d |-> rec]      a dict; rec is a function from keys  *)
(*                                    to values, an absent key is not in   *)
(*                                    DOMAIN rec                           *)
(*     [k |-> "table", m |-> fn]      the image table, a dict whose keys   *)
(*                                    are values (the string "7", the      *)
(*                                    integer 7); fn maps keys to metas    *)
(*   A character is a one-element string; the backslash is written "BS",   *)
(*   the newline "NL", the carriage return "CR".  In the HTML the fixed    *)
(*   template literals of the source (opening tags with their style        *)
(*   attribute, closing tags, comment openers) are single tokens; none of  *)
(*   them contains a backslash or starts with the letter n, so the         *)
(*   backslash-n scans see the same matches as on the character string.    *)
(*   The line-break tag <br> is kept at character level because the        *)
(*   source escapes and replaces it as text.                               *)
(*   A word without special characters (a type name, a variant name) is   *)
(*   one token of a string.                                                *)
(*   Sequence indices are 1-based; where the source prints a 0-based       *)
(*   index (content[i], idx=i) the model prints index - 1.                 *)
(***************************************************************************)
EXTENDS Integers, Sequences, FiniteSets, TLC

VARIABLES
  pc,      \* per invocation: where render_article stands
  arg,     \* per invocation: the caller's arguments (article, images)
  images,  \* per invocation: render_article's local binding of images
  rpt,     \* per invocation: the ValidationReport of validate()
  vi,      \* per invocation: index of the validate() block loop
  out,     \* per invocation: the fragment list of render()
  ri,      \* per invocation: index of the render() block loop
  html,    \* per invocation: html_str
  ret,     \* per invocation: what render_article returned or raised
  first    \* history: for each input, the outcome of the first call with it

vars == <<pc, arg, images, rpt, vi, out, ri, html, ret, first>>

\* ---------------------------------------------------------------- bounds
MaxBlocks == 2
MaxMs == 1
Threads == {1, 2}

\* ---------------------------------------------------------------- values
Null == [k |-> "null"]
S(s) == [k |-> "str", s |-> s]
I(n) == [k |-> "int", n |-> n]
L(l) == [k |-> "list", l |-> l]
D(d) == [k |-> "dict", d |-> d]
Tbl(m) == [k |-> "table", m |-> m]
EmptyDict == [k |-> "dict", d |-> <<>>]
EmptyTable == [k |-> "table", m |-> <<>>]

IsStr(v) == v.k = "str"
IsInt(v) == v.k = "int"
IsList(v) == v.k = "list"
IsDict(v) == v.k = "dict"

\* dict.get(key, default)
Get(v, key, default) == IF key \in DOMAIN v.d THEN v.d[key] ELSE default

\* Python truthiness of a value
Truthy(v) ==
  CASE v.k = "str" -> v.s # <<>>
    [] v.k = "int" -> v.n # 0
    [] v.k = "list" -> v.l # <<>>
    [] v.k = "dict" -> DOMAIN v.d # {}
    [] OTHER -> FALSE

\* str(x): a string is itself, None prints as None, an integer as its
\* digits; the repr of a container is one opaque token
PyStr(v) ==
  CASE v.k = "str" -> v.s
    [] v.k = "int" -> <<ToString(v.n)>>
    [] v.k = "null" -> <<"None">>
    [] OTHER -> <<"<repr>">>

\* str(x or "")
StrOr(v) == IF Truthy(v) THEN PyStr(v) ELSE <<>>

\* ---------------------------------------------------------------- text
BSn == <<"BS", "n">>
NLs == <<"NL">>
BR == <<"<", "b", "r", ">">>
Whitespace == {" ", "NL", "CR"}

\* str.replace(old, new): leftmost, non-overlapping
RECURSIVE Replace(_, _, _)
Replace(s, old, new) ==
  IF Len(s) < Len(old) THEN s
  ELSE IF SubSeq(s, 1, Len(old)) = old
       THEN new \o Replace(SubSeq(s, Len(old) + 1, Len(s)), old, new)
       ELSE <<Head(s)>> \o Replace(Tail(s), old, new)

\* old in s
Contains(s, old) ==
  \E i \in 1..(Len(s) - Len(old) + 1) : SubSeq(s, i, i + Len(old) - 1) = old

RECURSIVE LStrip(_)
LStrip(s) == IF s # <<>> /\ Head(s) \in Whitespace THEN LStrip(Tail(s)) ELSE s

RECURSIVE RStrip(_)
RStrip(s) ==
  IF s # <<>> /\ s[Len(s)] \in Whitespace THEN RStrip(SubSeq(s, 1, Len(s) - 1)) ELSE s

Strip(s) == RStrip(LStrip(s))

\* _normalize_text on a string
_normalize_text(s) ==
  Replace(Replace(Replace(s, BSn, NLs), <<"CR", "NL">>, NLs), <<"CR">>, NLs)

EscChar(c) ==
  CASE c = "&" -> "&amp;"
    [] c = "<" -> "&lt;"
    [] c = ">" -> "&gt;"
    [] c = "\"" -> "&quot;"
    [] c = "'" -> "&#x27;"
    [] OTHER -> c

\* _escape: html.escape(s, quote=True)
_escape(s) == [i \in 1..Len(s) |-> EscChar(s[i])]

\* positions j at which a bold span opened at 1..2 can close: the body
\* 3..j-1 is non-empty and holds no newline, and j..j+1 is **
BoldClose(s) ==
  {j \in 4..(Len(s) - 1) :
     /\ s[j] = "*" /\ s[j + 1] = "*"
     /\ \A m \in 3..(j - 1) : s[m] # "NL"}

Min(set) == CHOOSE x \in set : \A y \in set : x <= y

\* re.sub(r"\*\*(.+?)\*\*", r"<strong>\1</strong>", esc)
RECURSIVE BoldSub(_)
BoldSub(s) ==
  IF Len(s) < 5 THEN s
  ELSE IF s[1] = "*" /\ s[2] = "*" /\ BoldClose(s) # {}
       THEN LET j == Min(BoldClose(s))
            IN <<"<strong>">> \o SubSeq(s, 3, j - 1) \o <<"</strong>">>
                 \o BoldSub(SubSeq(s, j + 2, Len(s)))
       ELSE <<Head(s)>> \o BoldSub(Tail(s))

_inline_md_to_html(text) == BoldSub(_escape(_normalize_text(text)))

\* the newlines are left as they are
_text_without_breaks(text) == _inline_md_to_html(text)

_text_with_breaks(text) == Replace(_inline_md_to_html(text), NLs, BR)

\* ---------------------------------------------------------------- report
\* one report object kept by the validator and handed to every call
ValidationReportShared ==
  IF rpt[1].k = "idle"
  THEN [k |-> "rpt", ok |-> TRUE, errors |-> <<>>, warnings |-> <<>>,
        unknown_block_types |-> <<>>, missing_image_slots |-> <<>>,
        input_has_literal_backslash_n |-> FALSE, input_has_real_newline |-> FALSE]
  ELSE rpt[1]

\* ValidationReport(): a fresh report, every list a new empty list
ValidationReport ==
  [k |-> "rpt", ok |-> TRUE, errors |-> <<>>, warnings |-> <<>>,
   unknown_block_types |-> <<>>, missing_image_slots |-> <<>>,
   input_has_literal_backslash_n |-> FALSE, input_has_real_newline |-> FALSE]

add_error(r, msg) == [r EXCEPT !.ok = FALSE, !.errors = Append(@, msg)]

\* a warning that also clears ok
add_warn_flips(r, msg) == [r EXCEPT !.ok = FALSE, !.warnings = Append(@, msg)]

add_warn(r, msg) == [r EXCEPT !.warnings = Append(@, msg)]

\* ---------------------------------------------------------------- validator
T(w) == S(<<w>>)

SUPPORTED_TYPES ==
  {T("p"), T("h1"), T("h2"), T("h3"), T("hr"), T("blockquote"),
   T("image_slot"), T("info_card"), T("truth_list"), T("icon_list"),
   T("highlight_box")}

\* the prefix content[i] of a per-block message, i the 0-based index
At(i) == <<"content[", ToString(i - 1), "]">>

\* scan_text_fields: some string reachable through dict values and list
\* elements contains the pattern
RECURSIVE ScanFor(_, _)
ScanFor(x, pat) ==
  CASE x.k = "str" -> Contains(x.s, pat)
    [] x.k = "dict" -> \E key \in DOMAIN x.d : ScanFor(x.d[key], pat)
    [] x.k = "list" -> \E j \in 1..Len(x.l) : ScanFor(x.l[j], pat)
    [] OTHER -> FALSE

scan_text_fields(r, x) ==
  [r EXCEPT !.input_has_literal_backslash_n = @ \/ ScanFor(x, BSn),
            !.input_has_real_newline = @ \/ ScanFor(x, NLs)]

\* images.get(key)
ImgGet(im, key) == IF key \in DOMAIN im.m THEN im.m[key] ELSE Null

\* missing as soon as one of the two forms is absent
SlotMissingEither(im, slot_id) ==
  \/ im = Null
  \/ S(PyStr(slot_id)) \notin DOMAIN im.m \/ slot_id \notin DOMAIN im.m

\* "images is None or (str(slot_id) not in images and slot_id not in images)"
SlotMissing(im, slot_id) ==
  \/ im = Null
  \/ S(PyStr(slot_id)) \notin DOMAIN im.m /\ slot_id \notin DOMAIN im.m

CheckText(r, i, blk, t) ==
  IF t \in {T("p"), T("h1"), T("h2"), T("h3")} /\ ~IsStr(Get(blk, "text", S(<<>>)))
  THEN add_error(r, At(i) \o <<".text must be a string for type=">> \o PyStr(t))
  ELSE r

CheckQuote(r, i, blk, t) ==
  IF t # T("blockquote") THEN r
  ELSE LET r1 == IF ~IsStr(Get(blk, "primary", S(<<>>)))
                 THEN add_error(r, At(i) \o <<".primary must be a string for blockquote">>)
                 ELSE r
           sec == Get(blk, "secondary", Null)
       IN IF sec # Null /\ ~IsStr(sec)
          THEN add_error(r1, At(i) \o <<".secondary must be a string if provided">>)
          ELSE r1

CheckImage(r, i, blk, t, im) ==
  IF t # T("image_slot") THEN r
  ELSE LET slot_id == Get(blk, "id", Null)
       IN IF ~IsInt(slot_id)
          THEN add_error(r, At(i) \o <<".id must be an int for image_slot">>)
          ELSE IF SlotMissing(im, slot_id)
               THEN [r EXCEPT !.missing_image_slots = Append(@, slot_id.n)]
               ELSE r

CheckCard(r, i, blk, t) ==
  IF t # T("info_card") THEN r
  ELSE LET r1 == IF ~IsStr(Get(blk, "title", S(<<>>)))
                 THEN add_error(r, At(i) \o <<".title must be a string for info_card">>)
                 ELSE r
       IN IF ~IsStr(Get(blk, "text", S(<<>>)))
          THEN add_error(r1, At(i) \o <<".text must be a string for info_card">>)
          ELSE r1

CheckItems(r, i, blk, t, ty) ==
  IF t # T(ty) THEN r
  ELSE LET items == Get(blk, "items", Null)
       IN IF ~IsList(items) \/ items.l = <<>>
          THEN add_error(r, At(i) \o <<".items must be a non-empty list for ", ty>>)
          ELSE r

CheckBox(r, i, blk, t) ==
  IF t = T("highlight_box") /\ ~IsStr(Get(blk, "text", S(<<>>)))
  THEN add_error(r, At(i) \o <<".text must be a string for highlight_box">>)
  ELSE r

\* an unknown type recorded once, however many blocks carry it
CheckUnknownOnce(r, i, t) ==
  IF t \notin SUPPORTED_TYPES
  THEN add_warn([r EXCEPT !.unknown_block_types =
                            IF \E j \in 1..Len(@) : @[j] = PyStr(t)
                            THEN @ ELSE Append(@, PyStr(t))],
                <<"Unknown block type at content[", ToString(i - 1), "]: ">> \o PyStr(t))
  ELSE r

\* an unknown type recorded as an error
CheckUnknownAsError(r, i, t) ==
  IF t \notin SUPPORTED_TYPES
  THEN add_error([r EXCEPT !.unknown_block_types = Append(@, PyStr(t))],
                 At(i) \o <<": unknown block type ">> \o PyStr(t))
  ELSE r

CheckUnknown(r, i, t) ==
  IF t \notin SUPPORTED_TYPES
  THEN add_warn([r EXCEPT !.unknown_block_types = Append(@, PyStr(t))],
                <<"Unknown block type at content[", ToString(i - 1), "]: ">> \o PyStr(t))
  ELSE r

\* one iteration of the "validate blocks" loop
ValidateBlockRpt(r, i, blk, im) ==
  IF ~IsDict(blk) THEN add_error(r, At(i) \o <<" must be an object">>)
  ELSE LET t == Get(blk, "type", Null)
       IN CheckBox(
            CheckItems(
              CheckItems(
                CheckCard(
                  CheckImage(
                    CheckQuote(
                      CheckText(CheckUnknown(r, i, t), i, blk, t),
                      i, blk, t),
                    i, blk, t, im),
                  i, blk, t),
                i, blk, t, "truth_list"),
              i, blk, t, "icon_list"),
            i, blk, t)

\* validate() up to the block loop: the report, and whether it returned early
ValidateTopRpt(art) ==
  IF ~IsDict(art)
  THEN [early |-> TRUE, r |-> add_error(ValidationReport, <<"article must be an object">>)]
  ELSE LET title == Get(art, "title", Null)
           r1 == IF title # Null /\ ~IsDict(title)
                 THEN add_error(ValidationReport,
                                <<"article.title must be an object (or omitted)">>)
                 ELSE ValidationReport
           content == Get(art, "content", Null)
       IN IF ~IsList(content)
          THEN [early |-> TRUE, r |-> add_error(r1, <<"article.content must be a list">>)]
          ELSE [early |-> FALSE, r |-> scan_text_fields(r1, art)]

\* ---------------------------------------------------------------- renderer
\* str(x or dflt)
StrOrD(v, dflt) == IF Truthy(v) THEN PyStr(v) ELSE dflt

\* _normalize_text(str(d.get(key, "") or ""))
NormField(d, key) == _normalize_text(StrOr(Get(d, key, S(<<>>))))

\* a or b
Or(a, b) == IF Truthy(a) THEN a ELSE b

Digits == {"0", "1", "2", "3", "4", "5", "6", "7", "8", "9"}

\* int(x): an integer is itself; a string parses when, stripped, it is a
\* non-empty run of digit tokens, and raises ValueError otherwise; any other
\* value raises TypeError.  (The parsed value of a string is printed back
\* as the digit tokens it came from.)
IntOf(v) ==
  CASE v.k = "int" -> [raised |-> FALSE, s |-> <<ToString(v.n)>>, err |-> <<>>]
    [] v.k = "str" ->
         LET d == Strip(v.s)
         IN IF d # <<>> /\ \A j \in 1..Len(d) : d[j] \in Digits
            THEN [raised |-> FALSE, s |-> d, err |-> <<>>]
            ELSE [raised |-> TRUE, s |-> <<>>,
                  err |-> <<"invalid literal for int() with base 10: ">> \o v.s]
    [] OTHER -> [raised |-> TRUE, s |-> <<>>,
                 err |-> <<"int() argument must be a string or a real number">>]

\* the elements "for it in x" visits, or the TypeError of a non-iterable;
\* a string yields its characters, a dict its keys (each a string)
RECURSIVE KeySeq(_)
KeySeq(keys) ==
  IF keys = {} THEN <<>>
  ELSE LET key == CHOOSE key \in keys : TRUE
       IN <<T(key)>> \o KeySeq(keys \ {key})

Iter(x) ==
  CASE x.k = "list" -> [raised |-> FALSE, l |-> x.l, err |-> <<>>]
    [] x.k = "str" -> [raised |-> FALSE, l |-> [j \in 1..Len(x.s) |-> T(x.s[j])], err |-> <<>>]
    [] x.k = "dict" -> [raised |-> FALSE, l |-> KeySeq(DOMAIN x.d), err |-> <<>>]
    [] OTHER -> [raised |-> TRUE, l |-> <<>>, err |-> <<"object is not iterable">>]

Returns(frags) == [raised |-> FALSE, err |-> <<>>, out |-> frags]
Raises(err, frags) == [raised |-> TRUE, err |-> err, out |-> frags]

Opt(cond, frag) == IF cond THEN <<frag>> ELSE <<>>

RenderText(blk, open, close) ==
  Returns(<< <<open>> \o _text_with_breaks(NormField(blk, "text")) \o <<close>> >>)

RenderQuote(blk) ==
  LET variant == StrOrD(Get(blk, "variant", T("emphasis")), <<"emphasis">>)
      primary == Strip(NormField(blk, "primary"))
      secondary == Strip(NormField(blk, "secondary"))
  IN IF variant = <<"emphasis">>
     THEN Returns(
            << <<"<blockquote style=\"border-left: 6px solid #d32f2f; ...\">">> >>
            \o Opt(primary # <<>>, <<"<strong>[">> \o _escape(primary) \o <<"]</strong>">>)
            \o Opt(secondary # <<>>,
                   <<"<br><span style=\"font-size: 0.9em; ...\">-- ">>
                     \o _escape(secondary) \o <<"</span>">>)
            \o << <<"</blockquote>">> >>)
     ELSE Returns(
            << <<"<blockquote>">> >>
            \o Opt(primary # <<>>, <<"<strong>">> \o _escape(primary) \o <<"</strong>">>)
            \o Opt(secondary # <<>>, <<"<br><span>">> \o _escape(secondary) \o <<"</span>">>)
            \o << <<"</blockquote>">> >>)

RenderImage(blk, im) ==
  LET slot_id == Get(blk, "id", Null)
      key_str == PyStr(slot_id)
      meta == IF im # Null /\ DOMAIN im.m # {}
              THEN Or(ImgGet(im, S(key_str)), ImgGet(im, slot_id))
              ELSE Null
  IN IF ~Truthy(meta)
     THEN Returns(<< <<"<!-- IMAGE_SLOT_MISSING id=">> \o _escape(key_str) \o <<" -->">> >>)
     ELSE IF ~IsDict(meta)
     THEN Raises(<<"object has no attribute ", "'", "get", "'">>, <<>>)
     ELSE LET url == StrOr(Get(meta, "url", S(<<>>)))
              alt == NormField(meta, "alt")
              width == IntOf(Or(Get(meta, "width", I(1200)), I(1200)))
              height == IntOf(Or(Get(meta, "height", I(630)), I(630)))
              caption == Strip(NormField(meta, "caption"))
          IN IF width.raised THEN Raises(width.err, <<>>)
             ELSE IF height.raised THEN Raises(height.err, <<>>)
             ELSE Returns(
                    << <<"<img src=\"">> \o _escape(url) \o <<"\" width=\"">> \o width.s
                         \o <<"\" height=\"">> \o height.s \o <<"\" alt=\"">>
                         \o _escape(alt) \o <<"\" style=\"width: 100%; ...\">">> >>
                    \o Opt(caption # <<>>,
                           <<"<p style=\"color: #666; ... margin-top: -18px; ...\">">>
                             \o _text_with_breaks(caption) \o <<"</p>">>))

RenderCard(blk) ==
  LET variant == StrOrD(Get(blk, "variant", T("green")), <<"green">>)
      title == Strip(NormField(blk, "title"))
      txt == Strip(NormField(blk, "text"))
      open == CASE variant = <<"green">> ->
                     "<div style=\"background-color: #f1f8e9; ...\">"
                [] variant = <<"dashed_outline">> ->
                     "<div style=\"border: 2px dashed #ccc; ...\">"
                [] OTHER -> "<div style=\"padding: 15px; ... border: 1px solid #eee;\">"
  IN Returns(
       << <<open>> >>
       \o Opt(title # <<>>, <<"<strong>">> \o _escape(title) \o <<"</strong><br>">>)
       \o Opt(txt # <<>>, _text_with_breaks(txt))
       \o << <<"</div>">> >>)

TruthItem(it) ==
  IF ~IsDict(it) THEN <<>>
  ELSE LET kind == StrOr(Get(it, "kind", S(<<>>)))
           txt == Strip(NormField(it, "text"))
       IN IF txt = <<>> THEN <<>>
          ELSE IF kind = <<"myth">>
          THEN << <<"<li style=\"... color: #d32f2f; font-weight: bold;\">", "X ">>
                    \o _escape(txt) \o <<"</li>">> >>
          ELSE IF kind = <<"fact">>
          THEN << <<"<li style=\"... color: #2e7d32; font-weight: bold;\">", "V ">>
                    \o _escape(txt) \o <<"</li>">> >>
          ELSE << <<"<li style=\"margin-bottom: 10px;\">", "* ">>
                    \o _escape(txt) \o <<"</li>">> >>

IconItem(it) ==
  IF ~IsDict(it) THEN <<>>
  ELSE LET icon == Strip(NormField(it, "icon"))
           title == Strip(NormField(it, "title"))
           txt == Strip(NormField(it, "text"))
       IN IF icon = <<>> /\ title = <<>> /\ txt = <<>> THEN <<>>
          ELSE << <<"<li style=\"display: flex; ...\">">>,
                  <<"<span style=\"font-size: 24px; ...\">">> \o _escape(icon) \o <<"</span>">>,
                  <<"<div>">> >>
               \o Opt(title # <<>>, <<"<strong>">> \o _escape(title) \o <<"</strong><br>">>)
               \o Opt(txt # <<>>,
                      <<"<span style=\"color: #333;\">">> \o _text_with_breaks(txt)
                        \o <<"</span>">>)
               \o << <<"</div></li>">> >>

\* the fragments of the items, in order
RECURSIVE ItemFrags(_, _)
ItemFrags(items, icons) ==
  IF items = <<>> THEN <<>>
  ELSE (IF icons THEN IconItem(Head(items)) ELSE TruthItem(Head(items)))
         \o ItemFrags(Tail(items), icons)

RenderList(blk, icons) ==
  LET open == IF icons
              THEN <<"<ul style=\"list-style: none; padding: 0; margin: 10px 0;\">">>
              ELSE <<"<ul style=\"list-style-type: none; padding-left: 0; ...\">">>
      items == Iter(Or(Get(blk, "items", Null), L(<<>>)))
  IN IF items.raised THEN Raises(items.err, <<open>>)
     ELSE Returns(<<open>> \o ItemFrags(items.l, icons) \o << <<"</ul>">> >>)

RenderBox(blk) ==
  LET variant == StrOrD(Get(blk, "variant", T("dark_solid")), <<"dark_solid">>)
      txt == Strip(NormField(blk, "text"))
      open == IF variant = <<"dark_solid">>
              THEN "<div style=\"background-color: #333; color: #fff; ...\">"
              ELSE "<div style=\"border: 2px solid #333; ...\">"
  IN Returns(<< <<open>> \o _text_with_breaks(txt) \o <<"</div>">> >>)

\* _render_block: the fragments it returns, or the exception it raises (err
\* is str(e)) together with the fragments its local list held at that point
_render_block(blk, im) ==
  LET t == Get(blk, "type", Null)
  IN CASE t = T("p") -> RenderText(blk, "<p>", "</p>")
       [] t = T("h1") -> RenderText(blk, "<h1 style=\"font-weight: 800; color: #222; ...\">", "</h1>")
       [] t = T("h2") -> RenderText(blk, "<h2 style=\"font-weight: 800; color: #222; ...\">", "</h2>")
       [] t = T("h3") -> RenderText(blk, "<h3 style=\"font-weight: bold; color: #444; ...\">", "</h3>")
       [] t = T("hr") -> Returns(<< <<"<hr style=\"margin: 50px 0; ...\">">> >>)
       [] t = T("blockquote") -> RenderQuote(blk)
       [] t = T("image_slot") -> RenderImage(blk, im)
       [] t = T("info_card") -> RenderCard(blk)
       [] t = T("truth_list") -> RenderList(blk, FALSE)
       [] t = T("icon_list") -> RenderList(blk, TRUE)
       [] t = T("highlight_box") -> RenderBox(blk)
       [] OTHER -> Returns(<< <<"<!-- UNKNOWN_BLOCK type=">> \o _escape(PyStr(t)) \o <<" -->">> >>)

\* a fragment of the out list, with the place it was emitted for: src is
\* "head" (container opening, title, hero quote), "block" (content[idx]) or
\* "tail" (the closing tag)
Tag(frags, src, idx) ==
  [j \in 1..Len(frags) |-> [src |-> src, idx |-> idx, s |-> frags[j]]]

TitleOpenTag == "<h1 style=\"font-weight: 800; margin-bottom: 20px; ...\">"

\* render(): the title block
TitleFrags(art) ==
  LET title == Or(Get(art, "title", Null), EmptyDict)
  IN IF ~IsDict(title) THEN <<>>
     ELSE LET line1 == NormField(title, "line1")
              line2 == NormField(title, "line2")
              full_title == IF line1 # <<>> /\ line2 # <<>>
                            THEN line1 \o BR \o line2
                            ELSE IF line1 # <<>> THEN line1 ELSE line2
          IN Opt(full_title # <<>>,
                 <<TitleOpenTag>>
                   \o Replace(_escape(full_title), BR, BR) \o <<"</h1>">>)

\* render(): the optional hero_quote box
HeroFrags(art) ==
  LET hero == Get(art, "hero_quote", Null)
  IN IF ~IsDict(hero) THEN <<>>
     ELSE LET zh == Strip(NormField(hero, "zh"))
              en == Strip(NormField(hero, "en"))
          IN IF zh = <<>> /\ en = <<>> THEN <<>>
             ELSE << <<"<div style=\"background-color: #333; color: #fff; padding: 25px; ...\">">> >>
                  \o Opt(zh # <<>>, <<"<h3 style=\"margin: 0 0 10px 0; ...\">[">>
                                      \o _escape(zh) \o <<"]</h3>">>)
                  \o Opt(en # <<>>, <<"<p style=\"margin: 0; font-size: 0.95em; ...\">">>
                                      \o _escape(en) \o <<"</p>">>)
                  \o << <<"</div>">> >>

\* render(): everything appended before the content loop
HeadFrags(art) ==
  << <<"<div style=\"font-family: ...; max-width: 800px; margin: 0 auto;\">">> >>
  \o TitleFrags(art) \o HeroFrags(art)

\* render(): the elements the content loop enumerates
ContentIter(art) == Iter(Get(art, "content", L(<<>>)))

\* the handler keeps what the failed call had appended
GuardedLeaky(r, idx, t) ==
  IF r.raised
  THEN r.out \o << <<"<!-- RENDER_ERROR idx=", ToString(idx - 1), " type=">>
                    \o _escape(PyStr(t)) \o <<" err=">> \o _escape(r.err) \o <<" -->">> >>
  ELSE r.out

\* render(): the try/except around _render_block; r is what the call did
Guarded(r, idx, t) ==
  IF r.raised
  THEN << <<"<!-- RENDER_ERROR idx=", ToString(idx - 1), " type=">> \o _escape(PyStr(t))
            \o <<" err=">> \o _escape(r.err) \o <<" -->">> >>
  ELSE r.out

\* render(): the fragments one iteration of the content loop adds
BlockFrags(idx, blk, im) ==
  IF ~IsDict(blk)
  THEN << <<"<!-- INVALID_BLOCK content[", ToString(idx - 1), "] not an object -->">> >>
  ELSE Guarded(_render_block(blk, im), idx, Get(blk, "type", Null))

\* the fragments go to the front of the list
ExtendFront(o, tagged) == tagged \o o

\* out.append / out.extend
Extend(o, tagged) == o \o tagged

\* "\n".join(out)
RECURSIVE Join(_)
Join(frags) ==
  IF frags = <<>> THEN <<>>
  ELSE IF Len(frags) = 1 THEN frags[1]
  ELSE frags[1] \o NLs \o Join(Tail(frags))

Strs(o) == [j \in 1..Len(o) |-> o[j].s]

\* render(): join and final safety replace
FinalHtml(o) ==
  LET html_str == Join(Strs(o))
  IN IF Contains(html_str, BSn) THEN Replace(html_str, BSn, NLs) ELSE html_str

\* ---------------------------------------------------------------- facade
OutputWarning == <<"OUTPUT contains literal '\\n' (should not happen).">>

\* render_article after render(): the output sanity check and the report
\* dict; ms is the elapsed time.  html_length counts the tokens of the model.
Facade(r, h, ms) ==
  LET output_has_literal_backslash_n == Contains(h, BSn)
      warnings == IF output_has_literal_backslash_n
                  THEN Append(r.warnings, OutputWarning) ELSE r.warnings
      html_str == IF output_has_literal_backslash_n THEN Replace(h, BSn, NLs) ELSE h
  IN [raised |-> FALSE,
      html |-> html_str,
      report |-> [ok |-> r.ok, errors |-> r.errors, warnings |-> warnings,
                  unknown_block_types |-> r.unknown_block_types,
                  missing_image_slots |-> r.missing_image_slots,
                  input_has_literal_backslash_n |-> r.input_has_literal_backslash_n,
                  input_has_real_newline |-> r.input_has_real_newline,
                  output_has_literal_backslash_n |-> output_has_literal_backslash_n,
                  html_length |-> Len(html_str),
                  render_ms |-> ms]]

\* an exception leaving render_article
Raised == [raised |-> TRUE]

\* ---------------------------------------------------------------- inputs
tA == S(<<"A">>)
tB == S(<<"B">>)
tLit == S(<<"A", "BS", "n", "B">>)

\* the image table of the list documents: slot 7 under its string form,
\* slot 8 under its integer form only (its url holds a literal backslash-n),
\* slot 9 with a width that is not a number
RichTable ==
  Tbl((T("7") :> D([url |-> S(<<"u">>), alt |-> tA, caption |-> tB]))
      @@ (I(8) :> D([url |-> S(<<"u", "BS", "n", "v">>), width |-> I(640)]))
      @@ (T("9") :> D([url |-> S(<<"u">>), width |-> T("w")])))

Blocks ==
  {D([type |-> T("p"), text |-> tA]),
   D([type |-> T("p"), text |-> tLit]),
   D([type |-> T("p"), text |-> I(5)]),
   D([type |-> T("p")]),
   D([type |-> T("h1"), text |-> S(<<"*", "*", "A", "<", "*", "*">>)]),
   D([type |-> T("h2"), text |-> S(<<"A", "NL", "B">>)]),
   D([type |-> T("h3"), text |-> Null]),
   D([type |-> T("h1"), text |-> tLit]),
   D([type |-> T("h2"), text |-> S(<<"B", "BS", "n", "*", "*", "A", "*", "*">>)]),
   D([type |-> T("h3"), text |-> tLit]),
   D([type |-> T("hr")]),
   D([type |-> T("blockquote"), primary |-> tA, secondary |-> tB]),
   D([type |-> T("blockquote")]),
   D([type |-> T("blockquote"), variant |-> T("plain"), primary |-> I(5)]),
   D([type |-> T("image_slot"), id |-> I(6)]),
   D([type |-> T("image_slot"), id |-> I(7)]),
   D([type |-> T("image_slot"), id |-> I(8)]),
   D([type |-> T("image_slot"), id |-> I(9)]),
   D([type |-> T("image_slot"), id |-> T("7")]),
   D([type |-> T("image_slot")]),
   D([type |-> T("info_card"), variant |-> T("dashed_outline"), title |-> tA, text |-> tB]),
   D([type |-> T("info_card"), title |-> I(5)]),
   D([type |-> T("truth_list"),
      items |-> L(<<D([kind |-> T("myth"), text |-> tA]),
                    D([kind |-> T("fact"), text |-> tB]),
                    D([kind |-> T("other"), text |-> S(<<" ">>)]),
                    I(5)>>)]),
   D([type |-> T("truth_list"), items |-> I(5)]),
   D([type |-> T("icon_list"),
      items |-> L(<<D([icon |-> S(<<"*">>), title |-> tA, text |-> tLit])>>)]),
   D([type |-> T("icon_list")]),
   D([type |-> T("highlight_box"), text |-> tA]),
   D([type |-> T("highlight_box"), variant |-> T("outline")]),
   D([type |-> T("mystery"), text |-> tLit]),
   D([text |-> tA]),
   I(5)}

\* the content lists: every sequence of at most MaxBlocks blocks
Contents == UNION {[1..n -> Blocks] : n \in 0..MaxBlocks}

ListInputs ==
  {[article |-> D([title |-> D([line1 |-> tA, line2 |-> tB]), content |-> L(c)]),
    images |-> RichTable] : c \in Contents}

Titles ==
  {D([line1 |-> tA, line2 |-> tB]), D([line1 |-> tA]), D([line2 |-> S(<<"<">>)]),
   D([line1 |-> tLit, line2 |-> I(5)]), D([line1 |-> Null]), tA, Null}

Heroes ==
  {Null, D([zh |-> tA, en |-> tB]), D([zh |-> S(<<" ">>), en |-> tLit]), D([zh |-> S(<<" ">>)])}

\* documents that vary the title and the hero quote, with and without an
\* image table
HeadInputs ==
  {[article |-> D([title |-> ti, hero_quote |-> h, content |-> L(c)]), images |-> im] :
     ti \in Titles, h \in Heroes,
     c \in {<<>>, <<D([type |-> T("hr")])>>, <<D([type |-> T("image_slot"), id |-> I(7)])>>},
     im \in {Null, EmptyTable}}

\* documents whose top level is not an object or whose content is not a list
FatalInputs ==
  {[article |-> a, images |-> Null] :
     a \in {Null, I(5), tA, L(<<>>),
            D([title |-> D([line1 |-> tA])]),
            D([content |-> Null]),
            D([content |-> I(5)]),
            D([content |-> S(<<"a", "b">>)]),
            D([title |-> tA, content |-> D([x |-> I(1)])])}}

Inputs == ListInputs \cup HeadInputs \cup FatalInputs

\* the inputs of the concurrent requests
ConcInputs ==
  {[article |-> D([content |-> L(<<D([type |-> T("p"), text |-> tA])>>)]), images |-> Null],
   [article |-> D([content |-> L(<<D([type |-> T("mystery")]),
                                   D([type |-> T("blockquote"), primary |-> I(5)])>>)]),
    images |-> Null],
   [article |-> D([content |-> L(<<D([type |-> T("image_slot"), id |-> I(6)]),
                                   D([type |-> T("image_slot"), id |-> I(8)])>>)]),
    images |-> RichTable],
   [article |-> D([content |-> S(<<"a">>)]), images |-> EmptyTable],
   [article |-> Null, images |-> Null]}

\* ---------------------------------------------------------------- machine
Idle == [k |-> "idle"]

Init ==
  /\ pc = [t \in Threads |-> "idle"]
  /\ arg = [t \in Threads |-> Idle]
  /\ images = [t \in Threads |-> Idle]
  /\ rpt = [t \in Threads |-> Idle]
  /\ vi = [t \in Threads |-> 0]
  /\ out = [t \in Threads |-> <<>>]
  /\ ri = [t \in Threads |-> 0]
  /\ html = [t \in Threads |-> <<>>]
  /\ ret = [t \in Threads |-> Idle]
  /\ first = {}

\* render_article is called with an input of the set: "if images is None:
\* images = {}"
Call(t, inputs) ==
  /\ pc[t] = "idle"
  /\ \E a \in inputs :
       /\ arg' = [arg EXCEPT ![t] = a]
       /\ images' = [images EXCEPT ![t] = IF a.images = Null THEN EmptyTable ELSE a.images]
  /\ pc' = [pc EXCEPT ![t] = "validate"]
  /\ UNCHANGED <<rpt, vi, out, ri, html, ret, first>>

\* validate(): the report is created, the top-level checks and the text scan
ValidateTop(t) ==
  /\ pc[t] = "validate"
  /\ LET v == ValidateTopRpt(arg[t].article)
     IN /\ rpt' = [rpt EXCEPT ![t] = v.r]
        /\ pc' = [pc EXCEPT ![t] = IF v.early THEN "render" ELSE "v_blocks"]
  /\ vi' = [vi EXCEPT ![t] = 1]
  /\ UNCHANGED <<arg, images, out, ri, html, ret, first>>

\* validate(): one iteration of the block loop
ValidateBlock(t) ==
  /\ pc[t] = "v_blocks"
  /\ LET content == arg[t].article.d.content.l
     IN /\ vi[t] <= Len(content)
        /\ rpt' = [rpt EXCEPT ![t] = ValidateBlockRpt(@, vi[t], content[vi[t]], images[t])]
  /\ vi' = [vi EXCEPT ![t] = @ + 1]
  /\ UNCHANGED <<pc, arg, images, out, ri, html, ret, first>>

\* validate(): the loop is over, "return rpt"
ValidateReturn(t) ==
  /\ pc[t] = "v_blocks"
  /\ vi[t] > Len(arg[t].article.d.content.l)
  /\ pc' = [pc EXCEPT ![t] = "render"]
  /\ UNCHANGED <<arg, images, rpt, vi, out, ri, html, ret, first>>

\* render(): container, title, hero quote, and the start of the content
\* loop; article.get raises on a non-dict, enumerate on a non-iterable
RenderHead(t) ==
  /\ pc[t] = "render"
  /\ LET art == arg[t].article
     IN IF ~IsDict(art) \/ ContentIter(art).raised
        THEN /\ pc' = [pc EXCEPT ![t] = "raised"]
             /\ ret' = [ret EXCEPT ![t] = Raised]
             /\ UNCHANGED <<out, ri>>
        ELSE /\ pc' = [pc EXCEPT ![t] = "r_blocks"]
             /\ out' = [out EXCEPT ![t] = Extend(<<>>, Tag(HeadFrags(art), "head", 0))]
             /\ ri' = [ri EXCEPT ![t] = 1]
             /\ UNCHANGED ret
  /\ UNCHANGED <<arg, images, rpt, vi, html, first>>

\* render(): one iteration of the content loop
RenderBlock(t) ==
  /\ pc[t] = "r_blocks"
  /\ LET content == ContentIter(arg[t].article).l
     IN /\ ri[t] <= Len(content)
        /\ out' = [out EXCEPT
                     ![t] = Extend(@, Tag(BlockFrags(ri[t], content[ri[t]], images[t]),
                                          "block", ri[t]))]
  /\ ri' = [ri EXCEPT ![t] = @ + 1]
  /\ UNCHANGED <<pc, arg, images, rpt, vi, html, ret, first>>

\* render(): the closing tag, the join and the final safety replace
RenderFinish(t) ==
  /\ pc[t] = "r_blocks"
  /\ ri[t] > Len(ContentIter(arg[t].article).l)
  /\ LET o == Extend(out[t], Tag(<< <<"</div>">> >>, "tail", 0))
     IN /\ out' = [out EXCEPT ![t] = o]
        /\ html' = [html EXCEPT ![t] = FinalHtml(o)]
  /\ pc' = [pc EXCEPT ![t] = "facade"]
  /\ UNCHANGED <<arg, images, rpt, vi, ri, ret, first>>

\* render_article: output sanity check, timing, report dict, return
Finish(t) ==
  /\ pc[t] = "facade"
  /\ \E ms \in 0..MaxMs : ret' = [ret EXCEPT ![t] = Facade(rpt[t], html[t], ms)]
  /\ pc' = [pc EXCEPT ![t] = "done"]
  /\ UNCHANGED <<arg, images, rpt, vi, out, ri, html, first>>

\* what a call produced, without the timing field
Outcome(r) == IF r.raised THEN r ELSE [r EXCEPT !.report.render_ms = 0]

\* the caller takes the result or the exception and the locals of the call
\* are gone; with keep the caller remembers the first outcome of each input
Return(t, keep) ==
  /\ pc[t] \in {"done", "raised"}
  /\ first' = IF keep /\ ~\E f \in first : f.input = arg[t]
              THEN first \cup {[input |-> arg[t], outcome |-> Outcome(ret[t])]}
              ELSE first
  /\ pc' = [pc EXCEPT ![t] = "idle"]
  /\ arg' = [arg EXCEPT ![t] = Idle]
  /\ images' = [images EXCEPT ![t] = Idle]
  /\ rpt' = [rpt EXCEPT ![t] = Idle]
  /\ vi' = [vi EXCEPT ![t] = 0]
  /\ out' = [out EXCEPT ![t] = <<>>]
  /\ ri' = [ri EXCEPT ![t] = 0]
  /\ html' = [html EXCEPT ![t] = <<>>]
  /\ ret' = [ret EXCEPT ![t] = Idle]

Step(t) ==
  \/ ValidateTop(t)
  \/ ValidateBlock(t)
  \/ ValidateReturn(t)
  \/ RenderHead(t)
  \/ RenderBlock(t)
  \/ RenderFinish(t)
  \/ Finish(t)

\* one request at a time, over all the inputs
Next ==
  \/ Call(1, Inputs)
  \/ Step(1)
  \/ Return(1, FALSE)

Spec == Init /\ [][Next]_vars

\* concurrent requests, remembering the first outcome of each input
NextConc ==
  \E t \in Threads :
    \/ Call(t, ConcInputs)
    \/ Step(t)
    \/ Return(t, TRUE)

SpecConc == Init /\ [][NextConc]_vars

\* ---------------------------------------------------------------- claims
\* the invocations render() has started on, with a list content
Rendering(t) == pc[t] \in {"r_blocks", "facade", "done"}

ListDoc(t) == IsDict(arg[t].article) /\ IsList(Get(arg[t].article, "content", Null))

ContentOf(t) == arg[t].article.d.content.l

\* the fragments the out list holds for content[idx]
FragsOf(t, idx) ==
  Strs(SelectSeq(out[t], LAMBDA e : e.src = "block" /\ e.idx = idx))

TypeOf(blk) == Get(blk, "type", Null)

IsMarker(frag, opener) == frag # <<>> /\ frag[1] = opener

\* some error message of the list names content[idx]
ErrorNames(errors, idx) ==
  \E j \in 1..Len(errors) : Len(errors[j]) >= 3 /\ SubSeq(errors[j], 1, 3) = At(idx)

\* C1: per-block failure isolation.  For every block render() has been
\* through: when _render_block raised on it, the output holds for it exactly
\* one fragment, the RENDER_ERROR marker carrying its 0-based index, and
\* none of the fragments _render_block had built; when it did not raise,
\* the output holds exactly the fragments _render_block returns for that
\* block alone, whatever the other blocks did; and a document with a list
\* content never makes render_article raise.
C1_FailureIsolation ==
  \A t \in Threads :
    /\ (Rendering(t) /\ ListDoc(t)) =>
         \A idx \in 1..(ri[t] - 1) :
           LET blk == ContentOf(t)[idx]
               r == _render_block(blk, images[t])
           IN IsDict(blk) =>
                IF r.raised
                THEN /\ Len(FragsOf(t, idx)) = 1
                     /\ SubSeq(FragsOf(t, idx)[1], 1, 2)
                          = <<"<!-- RENDER_ERROR idx=", ToString(idx - 1)>>
                     /\ \A j \in 1..Len(r.out) : FragsOf(t, idx)[1] # r.out[j]
                ELSE FragsOf(t, idx) = r.out
    /\ (pc[t] = "raised") => ~ListDoc(t)

\* C1 witness: a call returned normally although one block raised after it
\* had built a fragment, and another block of the document rendered
C1_Witness ==
  \E t \in Threads :
    /\ pc[t] = "done" /\ ListDoc(t)
    /\ \E i, j \in 1..Len(ContentOf(t)) :
         /\ IsDict(ContentOf(t)[i]) /\ IsDict(ContentOf(t)[j])
         /\ _render_block(ContentOf(t)[i], images[t]).raised
         /\ _render_block(ContentOf(t)[i], images[t]).out # <<>>
         /\ ~_render_block(ContentOf(t)[j], images[t]).raised
         /\ Len(FragsOf(t, j)) >= 2

\* the place of a fragment in the document: container opening, title and
\* hero quote first, then the blocks by index, the closing tag last
Rank(e) ==
  CASE e.src = "head" -> 0
    [] e.src = "block" -> e.idx
    [] OTHER -> MaxBlocks + 2

\* C3: order preservation.  In the fragment list of a document with a list
\* content, every fragment emitted for content[i] (markers included) comes
\* before every fragment emitted for content[j] when i < j, all of them come
\* after the container opening, the title and the hero quote, and the
\* closing tag, once appended, is the last fragment; every block render()
\* has been through holds a place.
C3_OrderPreserved ==
  \A t \in Threads :
    (Rendering(t) /\ ListDoc(t)) =>
      /\ \A a, b \in 1..Len(out[t]) : a < b => Rank(out[t][a]) <= Rank(out[t][b])
      /\ out[t][1].src = "head"
      /\ \A idx \in 1..(ri[t] - 1) : FragsOf(t, idx) # <<>>
      /\ pc[t] \in {"facade", "done"} =>
           /\ out[t][Len(out[t])].src = "tail"
           /\ \A a \in 1..(Len(out[t]) - 1) : out[t][a].src # "tail"

\* C3 witness: a finished document with a title and two blocks, the first
\* with several fragments, the second a marker
C3_Witness ==
  \E t \in Threads :
    /\ pc[t] = "done" /\ ListDoc(t)
    /\ Len(ContentOf(t)) >= 2
    /\ Len(FragsOf(t, 1)) >= 2
    /\ Len(FragsOf(t, 2)) = 1 /\ IsMarker(FragsOf(t, 2)[1], "<!-- IMAGE_SLOT_MISSING id=")
    /\ Len(SelectSeq(out[t], LAMBDA e : e.src = "head")) >= 2

\* C5: unknown-type survival.  In a finished call, every block that is an
\* object and whose type is outside the supported set has exactly one
\* fragment in the output, the UNKNOWN_BLOCK comment naming the (escaped)
\* type; the report's unknown-type list contains the type, a warning
\* names the block and the type, and no error is recorded for the block.
C5_UnknownTypeSurvives ==
  \A t \in Threads :
    (pc[t] = "done" /\ ListDoc(t)) =>
      \A idx \in 1..Len(ContentOf(t)) :
        LET blk == ContentOf(t)[idx]
        IN (IsDict(blk) /\ TypeOf(blk) \notin SUPPORTED_TYPES) =>
             /\ FragsOf(t, idx)
                  = << <<"<!-- UNKNOWN_BLOCK type=">> \o _escape(PyStr(TypeOf(blk)))
                         \o <<" -->">> >>
             /\ \E j \in 1..Len(ret[t].report.unknown_block_types) :
                  ret[t].report.unknown_block_types[j] = PyStr(TypeOf(blk))
             /\ \E j \in 1..Len(ret[t].report.warnings) :
                  ret[t].report.warnings[j]
                    = <<"Unknown block type at content[", ToString(idx - 1), "]: ">>
                        \o PyStr(TypeOf(blk))
             /\ ~ErrorNames(ret[t].report.errors, idx)

\* C5 witness: a finished call whose document holds a block of type mystery
C5_Witness ==
  \E t \in Threads :
    /\ pc[t] = "done" /\ ListDoc(t)
    /\ \E idx \in 1..Len(ContentOf(t)) :
         /\ IsDict(ContentOf(t)[idx])
         /\ TypeOf(ContentOf(t)[idx]) = T("mystery")
    /\ ret[t].report.unknown_block_types # <<>>

\* the image_slot block has an integer id that is in the table under
\* neither its string form nor its integer form
Unresolved(blk, im) ==
  /\ IsDict(blk) /\ TypeOf(blk) = T("image_slot")
  /\ IsInt(Get(blk, "id", Null))
  /\ T(ToString(blk.d.id.n)) \notin DOMAIN im.m
  /\ blk.d.id \notin DOMAIN im.m

\* the ids of the unresolved image slots of a content list, in block order
RECURSIVE UnresolvedIds(_, _)
UnresolvedIds(c, im) ==
  IF c = <<>> THEN <<>>
  ELSE (IF Unresolved(Head(c), im) THEN <<Head(c).d.id.n>> ELSE <<>>)
         \o UnresolvedIds(Tail(c), im)

\* C6: missing image.  In a finished call, every image_slot block with an
\* integer id that resolves under neither form has exactly one fragment, the
\* IMAGE_SLOT_MISSING comment containing the id (no <img> tag), and the
\* report's missing-image-slot list is the list of those ids in block order.
C6_MissingImage ==
  \A t \in Threads :
    (pc[t] = "done" /\ ListDoc(t)) =>
      /\ \A idx \in 1..Len(ContentOf(t)) :
           Unresolved(ContentOf(t)[idx], images[t]) =>
             FragsOf(t, idx)
               = << <<"<!-- IMAGE_SLOT_MISSING id=",
                      ToString(ContentOf(t)[idx].d.id.n), " -->">> >>
      /\ ret[t].report.missing_image_slots = UnresolvedIds(ContentOf(t), images[t])

\* C6 witness: slot 7 with an empty table; the report lists exactly 7
C6_Witness ==
  \E t \in Threads :
    /\ pc[t] = "done" /\ ListDoc(t)
    /\ DOMAIN images[t].m = {}
    /\ ret[t].report.missing_image_slots = <<7>>
    /\ FragsOf(t, 1) = << <<"<!-- IMAGE_SLOT_MISSING id=", "7", " -->">> >>

\* C9: warnings never affect ok.  At every step of a validation pass and in
\* the returned report, ok is false only if an error message is recorded; a
\* step that records no error (it may record an unknown type, a missing
\* slot, an escape-detection flag or the safety-net warning) leaves ok as it
\* was, and the returned report carries the ok and the errors of the pass.
C9_WarningsKeepOk ==
  /\ [](\A t \in Threads :
          /\ rpt[t].k = "rpt" => (~rpt[t].ok => rpt[t].errors # <<>>)
          /\ pc[t] = "done" => (~ret[t].report.ok => ret[t].report.errors # <<>>))
  /\ [][\A t \in Threads :
          /\ (rpt[t].k = "rpt" /\ rpt'[t].k = "rpt" /\ rpt'[t].errors = rpt[t].errors)
               => rpt'[t].ok = rpt[t].ok
          /\ (pc[t] = "facade" /\ pc'[t] = "done")
               => /\ ret'[t].report.ok = rpt[t].ok
                  /\ ret'[t].report.errors = rpt[t].errors]_vars

\* C9 witness: a returned report with ok true that carries a warning, an
\* unknown type, a missing slot and the literal backslash-n flag
C9_Witness ==
  \E t \in Threads :
    /\ pc[t] = "done"
    /\ ret[t].report.ok
    /\ ret[t].report.warnings # <<>>
    /\ ret[t].report.unknown_block_types # <<>>
    /\ ret[t].report.missing_image_slots # <<>>
    /\ ret[t].report.input_has_literal_backslash_n

\* C8: statelessness across invocations.  Whatever calls came before and
\* whatever call runs at the same time, a call that ends (returning or
\* raising) with an input some earlier call had, ends with the html and the
\* report of the first call with that input, the timing field apart; and
\* the image table the call worked on is the caller's, unchanged.
C8_Stateless ==
  \A t \in Threads :
    pc[t] \in {"done", "raised"} =>
      /\ \A f \in first : f.input = arg[t] => f.outcome = Outcome(ret[t])
      /\ images[t] = IF arg[t].images = Null THEN EmptyTable ELSE arg[t].images

\* C8 witness: a repeated call returns a report without errors while the
\* call of another request, on another input, is under way with errors in
\* its report
C8_Witness ==
  \E t, u \in Threads :
    /\ t # u
    /\ pc[t] = "done"
    /\ \E f \in first : f.input = arg[t]
    /\ ret[t].report.errors = <<>>
    /\ pc[u] \in {"v_blocks", "render", "r_blocks", "facade"}
    /\ arg[u] # arg[t]
    /\ rpt[u].errors # <<>>

\* C2: fatal structural case.  A call whose article is not an object or
\* whose content is not a list does not raise: it returns html with no
\* rendered content block (markers at most) and a report with ok false.
C2_FatalShell ==
  \A t \in Threads :
    (pc[t] \in {"done", "raised"} /\ ~ListDoc(t)) =>
      /\ pc[t] = "done"
      /\ ~ret[t].report.ok
      /\ \A j \in 1..Len(out[t]) :
           out[t][j].src = "block" => IsMarker(out[t][j].s, "<!-- INVALID_BLOCK content[")

\* the block has a type with a required field, and that field is missing
\* or of the wrong type
BadRequired(blk) ==
  /\ IsDict(blk)
  /\ LET t == TypeOf(blk)
     IN \/ /\ t \in {T("p"), T("h1"), T("h2"), T("h3"), T("highlight_box")}
           /\ ~IsStr(Get(blk, "text", Null))
        \/ t = T("blockquote") /\ ~IsStr(Get(blk, "primary", Null))
        \/ /\ t = T("info_card")
           /\ ~IsStr(Get(blk, "title", Null)) \/ ~IsStr(Get(blk, "text", Null))
        \/ t = T("image_slot") /\ ~IsInt(Get(blk, "id", Null))
        \/ t = T("truth_list") /\ ~IsList(Get(blk, "items", Null))

\* C4: required-field validation.  In a finished call, for every block
\* whose required field is missing or of the wrong type the report has ok
\* false and an error message naming content[i].
C4_RequiredFields ==
  \A t \in Threads :
    (pc[t] = "done" /\ ListDoc(t)) =>
      \A idx \in 1..Len(ContentOf(t)) :
        BadRequired(ContentOf(t)[idx]) =>
          /\ ~ret[t].report.ok
          /\ ErrorNames(ret[t].report.errors, idx)

\* C7: title rendering.  When both title lines are non-empty the title
\* heading, the fragment after the container opening, is line1 and line2,
\* each escaped once, joined by the line-break tag <br>; with content [hr]
\* the next fragment is the horizontal rule.
C7_TitleLineBreak ==
  \A t \in Threads :
    (Rendering(t) /\ IsDict(Get(arg[t].article, "title", Null))) =>
      LET title == arg[t].article.d.title
          line1 == NormField(title, "line1")
          line2 == NormField(title, "line2")
      IN (line1 # <<>> /\ line2 # <<>>) =>
           /\ out[t][2].s = <<TitleOpenTag>> \o _escape(line1) \o BR \o _escape(line2) \o <<"</h1>">>
           /\ (pc[t] = "done" /\ ListDoc(t) /\ ContentOf(t) = <<D([type |-> T("hr")])>>
                 /\ ~IsDict(Get(arg[t].article, "hero_quote", Null)))
                => out[t][3].s = <<"<hr style=\"margin: 50px 0; ...\">">>

\* C10: output safety net reporting.  Whenever the joined fragments hold a
\* literal backslash-n, the returned html holds none and the returned report
\* records it: output_has_literal_backslash_n is true and the warnings
\* contain the safety-net warning.
C10_SafetyNetReported ==
  \A t \in Threads :
    (pc[t] = "done" /\ Contains(Join(Strs(out[t])), BSn)) =>
      /\ ~Contains(ret[t].html, BSn)
      /\ ret[t].report.output_has_literal_backslash_n
      /\ \E j \in 1..Len(ret[t].report.warnings) : ret[t].report.warnings[j] = OutputWarning

\* the block is a p/h1/h2/h3 whose text is a string holding a literal
\* backslash-n
LiteralText(blk) ==
  /\ IsDict(blk)
  /\ TypeOf(blk) \in {T("p"), T("h1"), T("h2"), T("h3")}
  /\ IsStr(Get(blk, "text", Null))
  /\ Contains(blk.d.text.s, BSn)

\* the fragment without its opening and closing tag
Body(frag) == SubSeq(frag, 2, Len(frag) - 1)

PlainChars == {"A", "B"}

IsPlain(s) == \A j \in 1..Len(s) : s[j] \in PlainChars

\* C11: escape round-trip.  In a finished call, every p/h1/h2/h3 block whose
\* text holds a literal backslash-n has one fragment whose body holds the
\* line-break tag <br>, no backslash-n and no raw newline; when the text is
\* two plain sides around one backslash-n the body is exactly the left
\* side, <br>, the right side; and the report's
\* input_has_literal_backslash_n is true.
C11_EscapeRoundTrip ==
  \A t \in Threads :
    (pc[t] = "done" /\ ListDoc(t)) =>
      \A idx \in 1..Len(ContentOf(t)) :
        LET blk == ContentOf(t)[idx]
        IN LiteralText(blk) =>
             /\ Len(FragsOf(t, idx)) = 1
             /\ LET body == Body(FragsOf(t, idx)[1])
                    txt == blk.d.text.s
                IN /\ Contains(body, BR)
                   /\ ~Contains(body, BSn)
                   /\ ~Contains(body, NLs)
                   /\ \A j \in 1..(Len(txt) - 1) :
                        (/\ SubSeq(txt, j, j + 1) = BSn
                         /\ IsPlain(SubSeq(txt, 1, j - 1))
                         /\ IsPlain(SubSeq(txt, j + 2, Len(txt))))
                          => body = SubSeq(txt, 1, j - 1) \o BR \o SubSeq(txt, j + 2, Len(txt))
             /\ ret[t].report.input_has_literal_backslash_n

\* C11 witness: a finished call with an h-block and a p-block whose texts
\* hold a literal backslash-n; the p body is A<br>B
C11_Witness ==
  \E t \in Threads :
    /\ pc[t] = "done" /\ ListDoc(t)
    /\ Len(ContentOf(t)) >= 2
    /\ LiteralText(ContentOf(t)[1]) /\ TypeOf(ContentOf(t)[1]) = T("h2")
    /\ LiteralText(ContentOf(t)[2]) /\ TypeOf(ContentOf(t)[2]) = T("p")
    /\ FragsOf(t, 2) = << <<"<p>", "A", "<", "b", "r", ">", "B", "</p>">> >>

\* the fragment is an <img> tag
IsImg(frag) == IsMarker(frag, "<img src=\"")

\* the block is an image_slot whose id is not an integer
NonIntSlot(blk) ==
  /\ IsDict(blk)
  /\ TypeOf(blk) = T("image_slot")
  /\ ~IsInt(Get(blk, "id", Null))

\* C12: non-integer image id.  In a finished call, every image_slot block
\* whose id is not an integer has an error recorded for it and no <img>
\* among its fragments, whatever the image table holds.
C12_NonIntegerIdNotLookedUp ==
  \A t \in Threads :
    (pc[t] = "done" /\ ListDoc(t)) =>
      \A idx \in 1..Len(ContentOf(t)) :
        NonIntSlot(ContentOf(t)[idx]) =>
          /\ ErrorNames(ret[t].report.errors, idx)
          /\ \A j \in 1..Len(FragsOf(t, idx)) : ~IsImg(FragsOf(t, idx)[j])

\* the values of a list, each once
RECURSIVE Distinct(_)
Distinct(q) ==
  IF q = <<>> THEN TRUE
  ELSE (\A j \in 2..Len(q) : q[j] # q[1]) /\ Distinct(Tail(q))

\* the printed types of the blocks with an unknown type, in block order
RECURSIVE UnknownTypes(_)
UnknownTypes(c) ==
  IF c = <<>> THEN <<>>
  ELSE (IF IsDict(Head(c)) /\ TypeOf(Head(c)) \notin SUPPORTED_TYPES
        THEN <<PyStr(TypeOf(Head(c)))>> ELSE <<>>)
         \o UnknownTypes(Tail(c))

\* C13 as stated: unknown types form a set.  In the returned report the
\* unknown-block-type collection holds each distinct unknown type once,
\* however many blocks carry it.
C13_UnknownTypesOnce ==
  \A t \in Threads :
    pc[t] = "done" => Distinct(ret[t].report.unknown_block_types)

\* C13 amended: the unknown-block-type collection is a list with one entry
\* per block of unknown type, in block order; a type carried by k blocks
\* appears k times.
C13_UnknownTypesPerBlock ==
  \A t \in Threads :
    (pc[t] = "done" /\ ListDoc(t)) =>
      ret[t].report.unknown_block_types = UnknownTypes(ContentOf(t))

\* C13 witness: two blocks of type mystery, and the list names mystery twice
C13_Witness ==
  \E t \in Threads :
    /\ pc[t] = "done" /\ ListDoc(t)
    /\ Len(ContentOf(t)) >= 2
    /\ ret[t].report.unknown_block_types = << <<"mystery">>, <<"mystery">> >>

====
